---- MODULE Spec2Model ----
(***************************************************************************)
(* TradeGPT API gateway (kira-ai): the price-aware ask route and the daily *)
(* quiz route of the Express server, as a state machine.                   *)
(*                                                                         *)
(* One inbound request is followed from its arrival to its response.       *)
(* Requests share no mutable state (every variable of a handler is a local *)
(* of its invocation), so the interleaving of two requests adds nothing:   *)
(* the model serves them one after another.                                *)
(*                                                                         *)
(* Representation.                                                         *)
(*   - A prompt is a sequence of one-character strings, so that the        *)
(*     whole-word regular expression is evaluated character by character.  *)
(*   - A composed text (the system instruction) is the sequence of the     *)
(*     fragments the template literal concatenates; the text is their      *)
(*     concatenation.                                                      *)
(*   - A JavaScript/JSON value is a record tagged by j: null, undefined,   *)
(*     NaN, number, string, array, object.                                 *)
(*   - A price is a number of thousandths of a USDT (65000129 is           *)
(*     65000.129).                                                         *)
(*   - An HTTP reply is delivered whole (status and body text): fetch      *)
(*     either rejects (transport failure) or resolves with both.           *)
(***************************************************************************)
EXTENDS Integers, Sequences, FiniteSets, TLC

\* ------------------------------------------------------------------ bounds

\* Longest prompt, in words, of the requests of Spec.
MaxWords == 3
\* Longest prompt, in words, of the requests of SpecTickers.
MaxWideWords == 4

\* ------------------------------------------------------- JavaScript values

JNull == [j |-> "null"]
Undefined == [j |-> "undefined"]
NaN == [j |-> "NaN"]
JNum(n) == [j |-> "number", n |-> n]
\* A string kept whole (a TLA+ string).
JStr(s) == [j |-> "string", s |-> s]
\* A string kept as its characters, for the code that looks inside it.
JChars(cs) == [cs |-> cs, j |-> "string"]
JArr(a) == [a |-> a, j |-> "array"]
JObj(f) == [f |-> f, j |-> "object"]
EmptyObj == JObj([k \in {} |-> 0])

\* x.k / x?.k on a value that is neither null nor undefined.
Get(x, k) ==
  IF x.j = "object" /\ k \in DOMAIN x.f THEN x.f[k] ELSE Undefined

\* x?.k : undefined when x is null or undefined.
OptGet(x, k) ==
  IF x.j \in {"null", "undefined"} THEN Undefined ELSE Get(x, k)

\* x?.[i] with a zero-based index.
OptAt(x, i) ==
  IF x.j = "array" /\ i + 1 \in DOMAIN x.a THEN x.a[i + 1] ELSE Undefined

\* JavaScript truthiness.
Truthy(x) ==
  CASE x.j \in {"null", "undefined", "NaN"} -> FALSE
    [] x.j = "number" -> x.n # 0
    [] x.j = "string" -> IF "s" \in DOMAIN x THEN x.s # "" ELSE x.cs # <<>>
    [] OTHER -> TRUE

\* ------------------------------------------------------------- characters

LowerCase ==
  <<"a", "b", "c", "d", "e", "f", "g", "h", "i", "j", "k", "l", "m",
    "n", "o", "p", "q", "r", "s", "t", "u", "v", "w", "x", "y", "z">>
UpperCase ==
  <<"A", "B", "C", "D", "E", "F", "G", "H", "I", "J", "K", "L", "M",
    "N", "O", "P", "Q", "R", "S", "T", "U", "V", "W", "X", "Y", "Z">>
Digits == <<"0", "1", "2", "3", "4", "5", "6", "7", "8", "9">>

Range(s) == {s[i] : i \in DOMAIN s}

\* The upper-case letter of every lower-case letter.
UpperOf ==
  [c \in Range(LowerCase) |->
     UpperCase[CHOOSE i \in DOMAIN LowerCase : LowerCase[i] = c]]

\* String.prototype.toUpperCase on one character.
UpperChar(c) == IF c \in DOMAIN UpperOf THEN UpperOf[c] ELSE c

\* The characters \w of a regular expression matches.
WordChars ==
  Range(LowerCase) \cup Range(UpperCase) \cup Range(Digits) \cup {"_"}

IsWordChar(c) == c \in WordChars

\* The digit a character stands for.
DigitValue(c) == (CHOOSE i \in DOMAIN Digits : Digits[i] = c) - 1

\* The characters of a string constant of the source.
Chars(s) ==
  CASE s = "BTC" -> <<"B", "T", "C">>
    [] s = "ETH" -> <<"E", "T", "H">>
    [] s = "SOL" -> <<"S", "O", "L">>
    [] s = "BNB" -> <<"B", "N", "B">>
    [] s = "AVAX" -> <<"A", "V", "A", "X">>
    [] s = "ARB" -> <<"A", "R", "B">>
    [] s = "OP" -> <<"O", "P">>
    [] s = "SUI" -> <<"S", "U", "I">>
    [] s = "TON" -> <<"T", "O", "N">>
    [] s = "DOGE" -> <<"D", "O", "G", "E">>

RECURSIVE Concat(_)
\* The string a sequence of strings spells.
Concat(cs) == IF cs = <<>> THEN "" ELSE Head(cs) \o Concat(Tail(cs))

\* ------------------------------------------------------- Ticker Extractor

\* The allow-list of the ask route.
tickers ==
  <<"BTC", "ETH", "SOL", "BNB", "AVAX", "ARB", "OP", "SUI", "TON", "DOGE">>

\* new RegExp(`\\b${s}\\b`, 'i').test(text): s occurs in text, letters
\* compared without case, with no word character right before or after it.
RegExpTest(s, text) ==
  LET pat == Chars(s)
      n == Len(pat)
  IN \E i \in 1..(Len(text) - n + 1) :
       /\ \A k \in 1..n : UpperChar(text[i + k - 1]) = UpperChar(pat[k])
       /\ i = 1 \/ ~IsWordChar(text[i - 1])
       /\ i + n - 1 = Len(text) \/ ~IsWordChar(text[i + n])

\* tickers.filter(s => ... .test(prompt))
Filter(list, text) == SelectSeq(list, LAMBDA s : RegExpTest(s, text))

\* The cap of found.slice(0, 3).
SliceEnd == 3

\* A slice that forgets its end.
SliceAll(seq, end) == seq

\* Array.prototype.slice(0, end)
Slice(seq, end) == SubSeq(seq, 1, IF Len(seq) < end THEN Len(seq) ELSE end)

\* found.slice(0, 3) of a prompt.
Found(text) == Slice(Filter(tickers, text), SliceEnd)

\* ----------------------------------------------------------- Price Lookup

\* String.prototype.toUpperCase
ToUpperCase(s) == Concat([i \in DOMAIN Chars(s) |-> UpperChar(Chars(s)[i])])

\* map[symbol] || `${symbol.toUpperCase()}USDT`
PairOf(symbol) ==
  CASE symbol = "BTC" -> "BTCUSDT"
    [] symbol = "ETH" -> "ETHUSDT"
    [] symbol = "SOL" -> "SOLUSDT"
    [] OTHER -> ToUpperCase(symbol) \o "USDT"

RECURSIVE DigitsValue(_)
\* The number a sequence of digits writes.
DigitsValue(ds) ==
  IF ds = <<>> THEN 0
  ELSE 10 * DigitsValue(SubSeq(ds, 1, Len(ds) - 1)) + DigitValue(ds[Len(ds)])

\* Number(text) of a string: the empty string is 0, a decimal literal is its
\* value (in thousandths; the model reads at most three decimals), anything
\* else is NaN.
StringToNumber(cs) ==
  LET dots == {i \in DOMAIN cs : cs[i] = "."}
      dot == IF dots = {} THEN Len(cs) + 1 ELSE CHOOSE i \in dots : TRUE
      whole == SubSeq(cs, 1, dot - 1)
      frac == SubSeq(cs, dot + 1, Len(cs))
      padded == frac \o SubSeq(<<"0", "0", "0">>, 1, 3 - Len(frac))
  IN IF cs = <<>> THEN JNum(0)
     ELSE IF /\ Cardinality(dots) <= 1
             /\ \A i \in DOMAIN cs \ dots : cs[i] \in Range(Digits)
             /\ Len(whole) + Len(frac) > 0
             /\ Len(frac) <= 3
       THEN JNum(1000 * DigitsValue(whole) + DigitsValue(padded))
       ELSE NaN

\* Number(x)
ToNumber(x) ==
  CASE x.j = "number" -> x
    [] x.j = "null" -> JNum(0)
    [] x.j = "string" /\ "cs" \in DOMAIN x -> StringToNumber(x.cs)
    [] OTHER -> NaN

\* a || b
OrElse(a, b) == IF Truthy(a) THEN a ELSE b

\* The reading of a body text as JSON (r.json(), JSON.parse) on the texts the
\* upstreams of this model send; a text that is not JSON is a SyntaxError.
JsonParse(text) ==
  CASE text = "null" -> JNull
    [] text = "{}" -> EmptyObj
    [] text = "{\"price\":\"65000.129\"}" ->
         JObj([price |-> JChars(<<"6", "5", "0", "0", "0", ".", "1", "2", "9">>)])
    [] text = "{\"price\":\"1.996\"}" ->
         JObj([price |-> JChars(<<"1", ".", "9", "9", "6">>)])
    [] text = "{\"price\":\"0.000\"}" ->
         JObj([price |-> JChars(<<"0", ".", "0", "0", "0">>)])
    [] text = "{\"price\":\"abc\"}" ->
         JObj([price |-> JChars(<<"a", "b", "c">>)])
    [] text = "{\"choices\":[{\"message\":{\"content\":\"Buy the dip\"}}],\"usage\":{\"total_tokens\":42}}" ->
         JObj([choices |-> JArr(<<JObj([message |-> JObj([content |-> JStr("Buy the dip")])])>>),
               usage |-> JObj([total_tokens |-> JNum(42)])])
    [] text = "{\"choices\":[{\"message\":{\"content\":\"\"}}],\"usage\":{}}" ->
         JObj([choices |-> JArr(<<JObj([message |-> JObj([content |-> JStr("")])])>>),
               usage |-> EmptyObj])
    [] text = "{\"choices\":[{\"message\":{\"content\":\"not json\"}}]}" ->
         JObj([choices |-> JArr(<<JObj([message |-> JObj([content |-> JStr("not json")])])>>)])
    [] text = "{\"choices\":[{\"message\":{\"content\":\"{\\\"type\\\":\\\"mcq\\\",\\\"q\\\":\\\"Q\\\",\\\"opts\\\":[\\\"A\\\",\\\"B\\\",\\\"C\\\"],\\\"a\\\":2}\"}}]}" ->
         JObj([choices |-> JArr(<<JObj([message |-> JObj([content |->
           JStr("{\"type\":\"mcq\",\"q\":\"Q\",\"opts\":[\"A\",\"B\",\"C\"],\"a\":2}")])])>>)])
    [] text = "{\"choices\":[{\"message\":{\"content\":\"{\\\"type\\\":\\\"mcq\\\",\\\"q\\\":\\\"Q\\\",\\\"opts\\\":[\\\"A\\\",\\\"B\\\"],\\\"a\\\":5}\"}}]}" ->
         JObj([choices |-> JArr(<<JObj([message |-> JObj([content |->
           JStr("{\"type\":\"mcq\",\"q\":\"Q\",\"opts\":[\"A\",\"B\"],\"a\":5}")])])>>)])
    [] text = "{\"type\":\"mcq\",\"q\":\"Q\",\"opts\":[\"A\",\"B\",\"C\"],\"a\":2}" ->
         JObj([type |-> JStr("mcq"), q |-> JStr("Q"),
               opts |-> JArr(<<JStr("A"), JStr("B"), JStr("C")>>), a |-> JNum(2)])
    [] text = "{\"type\":\"mcq\",\"q\":\"Q\",\"opts\":[\"A\",\"B\"],\"a\":5}" ->
         JObj([type |-> JStr("mcq"), q |-> JStr("Q"),
               opts |-> JArr(<<JStr("A"), JStr("B")>>), a |-> JNum(5)])
    [] text = "{\"error\":{\"message\":\"Rate limit reached\"}}" ->
         JObj([error |-> JObj([message |-> JStr("Rate limit reached")])])
    [] text = "{\"code\":-1121,\"msg\":\"Invalid symbol.\"}" ->
         JObj([code |-> JNum(-1121), msg |-> JStr("Invalid symbol.")])
    [] OTHER -> [j |-> "SyntaxError"]

\* What a settled fetch looks like: a rejection (transport failure), or a
\* response with its ok flag (status 200..299) and its body text.
Rejected == [kind |-> "rejected"]
Response(ok, text) == [kind |-> "response", ok |-> ok, text |-> text]

\* A getUsdPrice without its try/catch: what the try block throws reaches the
\* caller.
getUsdPriceNoCatch(reply) ==
  IF reply.kind = "rejected"
    THEN [j |-> "thrown", e |-> [name |-> "FetchError", message |-> "request to https://api.binance.com failed"]]
  ELSE IF ~reply.ok THEN JNull
  ELSE LET j == JsonParse(reply.text)
       IN IF j.j = "SyntaxError"
            THEN [j |-> "thrown", e |-> [name |-> "SyntaxError", message |-> "Unexpected token"]]
          ELSE IF j.j = "null"
            THEN [j |-> "thrown", e |-> [name |-> "TypeError", message |-> "Cannot read properties of null"]]
          ELSE OrElse(ToNumber(Get(j, "price")), JNull)

\* getUsdPrice after its fetch has settled: every path of the try block and
\* the catch.
getUsdPrice(reply) ==
  IF reply.kind = "rejected" THEN JNull
  ELSE IF ~reply.ok THEN JNull
  ELSE LET j == JsonParse(reply.text)
       IN IF j.j = "SyntaxError" THEN JNull
          ELSE IF j.j = "null" THEN JNull
          ELSE OrElse(ToNumber(Get(j, "price")), JNull)

\* --------------------------------------------------------- Context Composer

\* Number.prototype.toFixed(2) of a price (thousandths, not negative, not
\* half-way between two hundredths).
ToFixed(v) ==
  LET c == (v.n + 5) \div 10
  IN ToString(c \div 100) \o "." \o Digits[((c % 100) \div 10) + 1]
       \o Digits[(c % 10) + 1]

\* `${k} ~ ${v?.toFixed(2) ?? 'n/a'}`
PriceEntry(e) ==
  <<e.k, " ~ ", IF e.v.j = "number" THEN ToFixed(e.v) ELSE "n/a">>

RECURSIVE Join(_, _)
\* Array.prototype.join on texts: the elements with sep between neighbours.
Join(texts, sep) ==
  IF texts = <<>> THEN <<>>
  ELSE IF Len(texts) = 1 THEN texts[1]
  ELSE Head(texts) \o <<sep>> \o Join(Tail(texts), sep)

\* The head of the live-price clause.
PriceLineHead == "Approx live prices (USDT): "

\* A priceLine that lists the known quotes only, and is empty without one.
priceLineKnownOnly(prices) ==
  LET known == SelectSeq(prices, LAMBDA e : e.v.j = "number")
  IN IF Len(known) # 0
       THEN <<PriceLineHead>>
              \o Join([i \in DOMAIN known |-> PriceEntry(known[i])], ", ")
              \o <<".">>
       ELSE <<>>

\* priceLine: the clause when prices has a key, the empty string otherwise.
priceLine(prices) ==
  IF Len(prices) # 0
    THEN <<PriceLineHead>>
           \o Join([i \in DOMAIN prices |-> PriceEntry(prices[i])], ", ")
           \o <<".">>
    ELSE <<>>

\* The system instruction: the five fixed sentences and priceLine, joined by
\* spaces (the arrows of the second sentence are written ->).
system(prices) ==
  Join(<< <<"You are TradeGPT, a concise trading mentor for crypto.">>,
          <<"Answer in this structure: Definition -> Price context -> Confirmation -> Risk -> Disclaimer.">>,
          <<"When quoting price levels, ONLY use levels given by user or live context injected here; otherwise speak in relative terms (recent swing high/low, % move, EMA retest, OB zone).">>,
          <<"Do not invent dollar amounts.">>,
          <<"Prefer BTC/ETH/SOL examples when relevant.">>,
          priceLine(prices) >>, " ")

\* prices[s] = v on an object that keeps its keys in insertion order.
SetKey(obj, k, v) ==
  IF \E i \in DOMAIN obj : obj[i].k = k
    THEN [i \in DOMAIN obj |-> IF obj[i].k = k THEN [k |-> k, v |-> v] ELSE obj[i]]
    ELSE Append(obj, [k |-> k, v |-> v])

\* ------------------------------------------------------ Request Builder

\* process.env.OPENAI_MODEL || 'gpt-4o-mini', with the variable unset.
OPENAI_MODEL == JStr("gpt-4o-mini")

\* The body of the completion request of the ask route.
AskPayload(model, sys, prompt) ==
  [model |-> model, temperature |-> "0.2",
   messages |-> <<[role |-> "system", content |-> sys],
                  [role |-> "user", content |-> prompt]>>]

\* `${elo}` of a number (thousandths) or NaN.
NumberText(v) == IF v.j = "NaN" THEN "NaN" ELSE ToString(v.n \div 1000)

\* The body of the completion request of the quiz route.
QuizPayload(elo) ==
  [model |-> OPENAI_MODEL, temperature |-> "0.3",
   messages |-> <<[role |-> "user",
                   content |-> <<"Create a concise trading quiz JSON tuned for ELO ",
                                 NumberText(elo),
                                 ".\nFields: {type:'mcq'|'image_mcq', img?, q, opts:[A,B,C], a(0-2)}. Keep it short.">>]>>]

\* ------------------------------------------------------------ Quiz bank

\* The static bank (the ellipsis of the second question is written ...).
bank ==
  <<JObj([type |-> JStr("image_mcq"), img |-> JStr("https://i.imgur.com/0Z9z9zG.png"),
          q |-> JStr("Which candle shows a bullish engulfing?"),
          opts |-> JArr(<<JStr("A"), JStr("B"), JStr("C")>>), a |-> JNum(1)]),
    JObj([type |-> JStr("mcq"),
          q |-> JStr("A valid 1H order block is usually confirmed after..."),
          opts |-> JArr(<<JStr("a gap down"), JStr("mitigation + retest + BOS"), JStr("RSI > 60")>>),
          a |-> JNum(1)]),
    JObj([type |-> JStr("mcq"), q |-> JStr("Bullish RSI divergence means..."),
          opts |-> JArr(<<JStr("Price LL, RSI HL"), JStr("Price HL, RSI LL"), JStr("Price HH, RSI HH")>>),
          a |-> JNum(0)])>>

\* ------------------------------------------------------------ Faults

\* What the handlers can have thrown at them.
FetchError == [name |-> "FetchError", message |-> "request to https://api.openai.com/v1/chat/completions failed"]
SyntaxError == [name |-> "SyntaxError", message |-> "Unexpected token < in JSON at position 0"]
TypeError == [name |-> "TypeError", message |-> "Cannot read properties of null (reading 'choices')"]

\* String(e) of an Error.
String(e) == e.name \o ": " \o e.message

\* A ?? that forgets its default.
NullishKeep(x, d) == x

\* x ?? d
Nullish(x, d) == IF x.j \in {"null", "undefined"} THEN d ELSE x

\* ------------------------------------------------------------------ inputs

\* The words the prompts of Spec are made of.
Vocabulary ==
  {<<"W", "h", "a", "t">>, <<"B", "T", "C">>, <<"e", "t", "h">>, <<"S", "o", "l">>}

\* The words the prompts of SpecTickers are made of; "stop_SOL" holds OP and
\* SOL inside a longer word.
WideVocabulary ==
  {<<"d", "o", "g", "e">>, <<"O", "p">>, <<"e", "t", "h">>, <<"B", "T", "C">>,
   <<"s", "t", "o", "p", "_", "S", "O", "L">>}

\* The texts of at most max words of vocabulary, a space between neighbours.
Prompts(vocabulary, max) ==
  {Join(ws, " ") : ws \in UNION {[1..n -> vocabulary] : n \in 0..max}}

\* req.body of an ask request: no body, or an object with or without a
\* prompt and with or without a model.
AskBodies(prompts, models) ==
  {Undefined}
    \cup {JObj([model |-> m]) : m \in models}
    \cup {JObj([prompt |-> JChars(p)]) : p \in prompts}
    \cup {JObj([prompt |-> JChars(p), model |-> m]) : p \in prompts, m \in models}

\* req.query of a quiz request.
QuizQueries ==
  {EmptyObj, JObj([elo |-> JChars(<<"1", "5", "0", "0">>)]),
   JObj([elo |-> JChars(<<"a", "b", "c">>)])}

\* process.env.QUIZ_MODE
QuizModes == {Undefined, JStr("static"), JStr("llm")}

\* What the market-data endpoint can answer.
MarketOutcomes ==
  {Rejected,
   Response(FALSE, "{\"code\":-1121,\"msg\":\"Invalid symbol.\"}"),
   Response(TRUE, "<html>Service unavailable</html>"),
   Response(TRUE, "null"),
   Response(TRUE, "{}"),
   Response(TRUE, "{\"price\":\"abc\"}"),
   Response(TRUE, "{\"price\":\"0.000\"}"),
   Response(TRUE, "{\"price\":\"65000.129\"}"),
   Response(TRUE, "{\"price\":\"1.996\"}")}

\* What the completion endpoint can answer.
CompletionOutcomes ==
  {Rejected,
   Response(FALSE, "upstream boom"),
   Response(FALSE, "{\"error\":{\"message\":\"Rate limit reached\"}}"),
   Response(TRUE, "<html>Bad gateway</html>"),
   Response(TRUE, "null"),
   Response(TRUE, "{}"),
   Response(TRUE, "{\"choices\":[{\"message\":{\"content\":\"Buy the dip\"}}],\"usage\":{\"total_tokens\":42}}"),
   Response(TRUE, "{\"choices\":[{\"message\":{\"content\":\"\"}}],\"usage\":{}}"),
   Response(TRUE, "{\"choices\":[{\"message\":{\"content\":\"not json\"}}]}"),
   Response(TRUE, "{\"choices\":[{\"message\":{\"content\":\"{\\\"type\\\":\\\"mcq\\\",\\\"q\\\":\\\"Q\\\",\\\"opts\\\":[\\\"A\\\",\\\"B\\\",\\\"C\\\"],\\\"a\\\":2}\"}}]}"),
   Response(TRUE, "{\"choices\":[{\"message\":{\"content\":\"{\\\"type\\\":\\\"mcq\\\",\\\"q\\\":\\\"Q\\\",\\\"opts\\\":[\\\"A\\\",\\\"B\\\"],\\\"a\\\":5}\"}}]}")}

\* ------------------------------------------------------------------- state

VARIABLES
  quizMode,  \* process.env.QUIZ_MODE, fixed at startup
  pc,        \* where the handler of the current request stands
  req,       \* the current request: its route and its body or query
  found,     \* ask: found.slice(0, 3)
  cur,       \* ask: the position in found of the symbol being looked up
  prices,    \* ask: the prices object, keys in insertion order
  net,       \* the outbound fetch the handler awaits
  mdCalls,   \* the pairs asked of the market-data endpoint, in order
  aiCalls,   \* the bodies posted to the completion endpoint, in order
  faults,    \* what was thrown inside the handler, and where
  sent       \* the responses written to the caller, in order

vars == <<quizMode, pc, req, found, cur, prices, net, mdCalls, aiCalls, faults, sent>>

NoFetch == [to |-> "none", state |-> "none", reply |-> [kind |-> "none"]]
Pending(to) == [to |-> to, state |-> "pending", reply |-> [kind |-> "none"]]

\* res.status(status).json(body)
Reply(status, body) == [status |-> status, body |-> body]

\* A catch that answers without the detail.
ServerErrorNoDetail(e) == Reply(500, JObj([error |-> JStr("Server error")]))

\* The catch of a route: res.status(500).json({error, detail: String(e)}).
ServerError(e) ==
  Reply(500, JObj([error |-> JStr("Server error"), detail |-> JStr(String(e))]))

\* The server after startup, with one of modes as its quiz mode.
Started(modes) ==
  /\ quizMode \in modes
  /\ pc = "idle"
  /\ req = [route |-> "none"]
  /\ found = <<>>
  /\ cur = 0
  /\ prices = <<>>
  /\ net = NoFetch
  /\ mdCalls = <<>>
  /\ aiCalls = <<>>
  /\ faults = <<>>
  /\ sent = <<>>

Init == Started(QuizModes)

\* ------------------------------------------------------------- ask route

\* const { prompt } = req.body || {}
PromptOf(body) == Get(OrElse(body, EmptyObj), "prompt")

\* A validation that rejects only an absent prompt: prompt === undefined.
MissingPromptAbsentOnly(body) == PromptOf(body).j = "undefined"

\* !prompt
MissingPrompt(body) == ~Truthy(PromptOf(body))

\* The handler's fetch of the completion endpoint, once the prices are in;
\* calls are the bodies posted so far.
AskDispatch(body, px, calls) ==
  LET prompt == PromptOf(body)
      given == Get(body, "model")
      model == IF given.j = "undefined" THEN OPENAI_MODEL ELSE given
  IN /\ aiCalls' = Append(calls, AskPayload(model, system(px), prompt.cs))
     /\ net' = Pending("openai")
     /\ pc' = "ask_wait"

\* getUsdPrice(symbol) up to its fetch; calls are the pairs asked so far.
Lookup(symbol, calls) ==
  /\ mdCalls' = Append(calls, PairOf(symbol))
  /\ net' = Pending("binance")
  /\ pc' = "price_wait"

\* POST /api/tradegpt/ask arrives: the handler runs to its first await, or
\* to the 400.
AskBegin(body) ==
  /\ pc = "idle"
  /\ req' = [route |-> "ask", body |-> body]
  /\ faults' = <<>>
  /\ cur' = 1
  /\ prices' = <<>>
  /\ LET prompt == PromptOf(body)
     IN IF MissingPrompt(body)
          THEN /\ sent' = <<Reply(400, JObj([error |-> JStr("Missing prompt")]))>>
               /\ pc' = "done"
               /\ found' = <<>>
               /\ net' = NoFetch
               /\ mdCalls' = <<>>
               /\ aiCalls' = <<>>
          ELSE /\ sent' = <<>>
               /\ found' = Found(prompt.cs)
               /\ IF found' # <<>>
                    THEN /\ Lookup(found'[1], <<>>)
                         /\ aiCalls' = <<>>
                    ELSE /\ AskDispatch(body, <<>>, <<>>)
                         /\ mdCalls' = <<>>
  /\ UNCHANGED quizMode

\* An upstream settles the fetch the handler awaits.
Settle(to, outcome) ==
  /\ net.to = to
  /\ net.state = "pending"
  /\ net' = [to |-> to, state |-> "settled", reply |-> outcome]
  /\ UNCHANGED <<quizMode, pc, req, found, cur, prices, mdCalls, aiCalls, faults, sent>>

MarketSettles(outcome) == Settle("binance", outcome)

CompletionSettles(outcome) == Settle("openai", outcome)

\* The ask handler resumes after a price lookup: the rest of getUsdPrice, the
\* assignment to prices, then the next lookup or the completion request.
PriceResume ==
  /\ pc = "price_wait"
  /\ net.state = "settled"
  /\ LET v == getUsdPrice(net.reply)
     IN IF v.j = "thrown"
          THEN /\ faults' = Append(faults, [e |-> v.e, at |-> "getUsdPrice"])
               /\ sent' = Append(sent, ServerError(v.e))
               /\ pc' = "done"
               /\ UNCHANGED <<prices, cur, net, mdCalls, aiCalls>>
          ELSE /\ prices' = SetKey(prices, found[cur], v)
               /\ UNCHANGED <<faults, sent>>
               /\ IF cur < Len(found)
                    THEN /\ cur' = cur + 1
                         /\ Lookup(found[cur + 1], mdCalls)
                         /\ UNCHANGED aiCalls
                    ELSE /\ AskDispatch(req.body, prices', aiCalls)
                         /\ UNCHANGED <<cur, mdCalls>>
  /\ UNCHANGED <<quizMode, req, found>>

\* What the ask handler answers to a success status: the body is read as
\* JSON, then reply and tokens are taken from it.
AskParsed(reply, px) ==
  LET data == JsonParse(reply.text)
  IN IF data.j = "SyntaxError"
       THEN [res |-> ServerError(SyntaxError), fault |-> <<[e |-> SyntaxError, at |-> "r.json"]>>]
     ELSE IF data.j = "null"
       THEN [res |-> ServerError(TypeError), fault |-> <<[e |-> TypeError, at |-> "data.choices"]>>]
     ELSE [res |-> Reply(200, JObj([
              reply |-> OrElse(OptGet(OptGet(OptAt(Get(data, "choices"), 0), "message"), "content"), JStr("")),
              tokens |-> Nullish(OptGet(Get(data, "usage"), "total_tokens"), JNull),
              cost |-> JNull,
              live |-> px])),
           fault |-> <<>>]

\* An ask handler without the r.ok test: every response is read as a
\* completion.
AskOutcomeNoStatusTest(reply, px) ==
  IF reply.kind = "rejected"
    THEN [res |-> ServerError(FetchError), fault |-> <<[e |-> FetchError, at |-> "fetch"]>>]
  ELSE AskParsed(reply, px)

\* What the ask handler answers once the completion fetch has settled, with
\* the fault it caught, if any.
AskOutcome(reply, px) ==
  IF reply.kind = "rejected"
    THEN [res |-> ServerError(FetchError), fault |-> <<[e |-> FetchError, at |-> "fetch"]>>]
  ELSE IF ~reply.ok
    THEN [res |-> Reply(502, JObj([error |-> JStr("OpenAI error"), detail |-> JStr(reply.text)])),
          fault |-> <<>>]
  ELSE AskParsed(reply, px)

\* An ask handler that posts its completion request again when the fetch was
\* rejected.
AskResumeRetry ==
  /\ pc = "ask_wait"
  /\ net.state = "settled"
  /\ IF net.reply.kind = "rejected" /\ Len(aiCalls) < 2
       THEN /\ aiCalls' = Append(aiCalls, aiCalls[1])
            /\ net' = Pending("openai")
            /\ UNCHANGED <<pc, sent, faults>>
       ELSE /\ sent' = Append(sent, AskOutcome(net.reply, prices).res)
            /\ faults' = faults \o AskOutcome(net.reply, prices).fault
            /\ pc' = "done"
            /\ UNCHANGED <<net, aiCalls>>
  /\ UNCHANGED <<quizMode, req, found, cur, prices, mdCalls>>

\* The ask handler resumes after the completion fetch.
AskResume ==
  /\ pc = "ask_wait"
  /\ net.state = "settled"
  /\ LET out == AskOutcome(net.reply, prices)
     IN /\ sent' = Append(sent, out.res)
        /\ faults' = faults \o out.fault
  /\ pc' = "done"
  /\ UNCHANGED <<quizMode, req, found, cur, prices, net, mdCalls, aiCalls>>

\* ------------------------------------------------------------ quiz route

\* (process.env.QUIZ_MODE || 'static') === 'llm'
IsLlmMode(mode) == OrElse(mode, JStr("static")) = JStr("llm")

\* Number(req.query.elo || 1200)
Elo(query) == ToNumber(OrElse(Get(query, "elo"), JNum(1200000)))

\* bank[Math.floor(Math.random() * bank.length)]: any item of the bank.
BankPick(i) == Reply(200, bank[i + 1])

\* GET /api/tradegpt/quiz arrives: the handler runs to its await (llm mode)
\* or to its answer (static mode).
QuizBegin(query) ==
  /\ pc = "idle"
  /\ req' = [route |-> "quiz", body |-> query]
  /\ faults' = <<>>
  /\ found' = <<>>
  /\ cur' = 0
  /\ prices' = <<>>
  /\ mdCalls' = <<>>
  /\ IF IsLlmMode(quizMode)
       THEN /\ aiCalls' = <<QuizPayload(Elo(query))>>
            /\ net' = Pending("openai")
            /\ pc' = "quiz_wait"
            /\ sent' = <<>>
       ELSE /\ aiCalls' = <<>>
            /\ net' = NoFetch
            /\ pc' = "done"
            /\ \E i \in 0..(Len(bank) - 1) : sent' = <<BankPick(i)>>
  /\ UNCHANGED quizMode

\* What the quiz handler does once the completion fetch has settled: the
\* response it writes, or a fall to the static bank, with what was thrown.
QuizOutcome(reply) ==
  IF reply.kind = "rejected"
    THEN [to |-> "res", res |-> ServerError(FetchError),
          fault |-> <<[e |-> FetchError, at |-> "fetch"]>>]
  ELSE IF ~reply.ok
    THEN [to |-> "bank", fault |-> <<>>]
  ELSE LET data == JsonParse(reply.text)
       IN IF data.j = "SyntaxError"
            THEN [to |-> "res", res |-> ServerError(SyntaxError),
                  fault |-> <<[e |-> SyntaxError, at |-> "r.json"]>>]
          ELSE IF data.j = "null"
            THEN [to |-> "res", res |-> ServerError(TypeError),
                  fault |-> <<[e |-> TypeError, at |-> "data.choices"]>>]
          ELSE LET txt == OrElse(OptGet(OptGet(OptAt(Get(data, "choices"), 0), "message"), "content"),
                                 JStr("{}"))
                   item == JsonParse(txt.s)
               IN IF item.j = "SyntaxError"
                    THEN [to |-> "bank", fault |-> <<[e |-> SyntaxError, at |-> "JSON.parse"]>>]
                    ELSE [to |-> "res", res |-> Reply(200, item), fault |-> <<>>]

\* The quiz handler resumes after the completion fetch.
QuizResume ==
  /\ pc = "quiz_wait"
  /\ net.state = "settled"
  /\ LET out == QuizOutcome(net.reply)
     IN /\ faults' = faults \o out.fault
        /\ IF out.to = "res"
             THEN sent' = Append(sent, out.res)
             ELSE \E i \in 0..(Len(bank) - 1) : sent' = Append(sent, BankPick(i))
  /\ pc' = "done"
  /\ UNCHANGED <<quizMode, req, found, cur, prices, net, mdCalls, aiCalls>>

\* The handler has returned: its locals are gone, the server waits for the
\* next request.
Finish ==
  /\ pc = "done"
  /\ pc' = "idle"
  /\ req' = [route |-> "none"]
  /\ found' = <<>>
  /\ cur' = 0
  /\ prices' = <<>>
  /\ net' = NoFetch
  /\ mdCalls' = <<>>
  /\ aiCalls' = <<>>
  /\ faults' = <<>>
  /\ sent' = <<>>
  /\ UNCHANGED quizMode

\* ------------------------------------------------------- specifications

\* req.body.model, when given.
Models == {JStr("gpt-4o")}

Next ==
  \/ pc = "idle" /\ \E body \in AskBodies(Prompts(Vocabulary, MaxWords), Models) : AskBegin(body)
  \/ \E outcome \in MarketOutcomes : MarketSettles(outcome)
  \/ PriceResume
  \/ \E outcome \in CompletionOutcomes : CompletionSettles(outcome)
  \/ AskResume
  \/ \E query \in QuizQueries : QuizBegin(query)
  \/ QuizResume
  \/ Finish

Spec == Init /\ [][Next]_vars

\* The upstream answers of SpecTickers: a failure and a success of each.
FewMarketOutcomes ==
  {Rejected, Response(TRUE, "{\"price\":\"65000.129\"}")}
FewCompletionOutcomes ==
  {Response(FALSE, "upstream boom"),
   Response(TRUE, "{\"choices\":[{\"message\":{\"content\":\"Buy the dip\"}}],\"usage\":{\"total_tokens\":42}}")}

\* The same handlers on longer prompts over more tickers, with fewer upstream
\* answers.
NextTickers ==
  \/ pc = "idle" /\ \E body \in AskBodies(Prompts(WideVocabulary, MaxWideWords), {}) : AskBegin(body)
  \/ \E outcome \in FewMarketOutcomes : MarketSettles(outcome)
  \/ PriceResume
  \/ \E outcome \in FewCompletionOutcomes : CompletionSettles(outcome)
  \/ AskResume
  \/ \E query \in {EmptyObj} : QuizBegin(query)
  \/ QuizResume
  \/ Finish

InitTickers == Started({JStr("llm")})

SpecTickers == InitTickers /\ [][NextTickers]_vars

\* ------------------------------------------------------------------ claims

IsAsk == req.route = "ask"
IsQuiz == req.route = "quiz"

\* The ask request at hand carries no prompt, or the empty string.
NoPrompt ==
  /\ IsAsk
  /\ \/ req.body = Undefined
     \/ "prompt" \notin DOMAIN req.body.f
     \/ req.body.f.prompt = JChars(<<>>)

\* The ask request at hand carries a prompt that is not empty.
HasPrompt == IsAsk /\ ~NoPrompt

\* The one response of the finished request.
Answer == sent[1]

\* The body text of a success reply of an upstream is JSON.
IsJson(text) == JsonParse(text).j # "SyntaxError"

\* C1: an ask request with no prompt or an empty prompt is answered 400
\* {error: "Missing prompt"} at once, and neither a price lookup nor a
\* completion call is ever issued for it.
C1_MissingPromptRejected ==
  NoPrompt =>
    /\ pc = "done"
    /\ sent = <<Reply(400, JObj([error |-> JStr("Missing prompt")]))>>
    /\ mdCalls = <<>>
    /\ aiCalls = <<>>
    /\ net.state = "none"

\* C1 witness: an ask request whose prompt is the empty string (with a
\* model given) has been answered.
C1_Witness ==
  /\ IsAsk
  /\ req.body # Undefined
  /\ DOMAIN req.body.f = {"prompt", "model"}
  /\ req.body.f.prompt = JChars(<<>>)
  /\ pc = "done"
  /\ Answer.status = 400

\* The completion call of a quiz request in llm mode failed: the fetch was
\* rejected, the status was not a success, or the reply cannot be parsed
\* (its body is not JSON, or its message text is not JSON).
QuizUpstreamFailed ==
  /\ IsQuiz
  /\ IsLlmMode(quizMode)
  /\ pc = "done"
  /\ \/ net.reply.kind = "rejected"
     \/ net.reply.kind = "response" /\ ~net.reply.ok
     \/ /\ net.reply.kind = "response"
        /\ net.reply.ok
        /\ \/ ~IsJson(net.reply.text)
           \/ net.reply.text = "{\"choices\":[{\"message\":{\"content\":\"not json\"}}]}"

\* C2: in llm mode the quiz route answers 200 with an item of the static
\* bank whenever the completion call failed, never 500.
C2_QuizNeverPropagates ==
  QuizUpstreamFailed =>
    /\ Len(sent) = 1
    /\ Answer.status = 200
    /\ Answer.body \in Range(bank)

\* A QuizItem: three options and a correct index that is one of 0, 1, 2.
IsQuizItem(v) ==
  /\ v.j = "object"
  /\ {"q", "opts", "a"} \subseteq DOMAIN v.f
  /\ v.f.opts.j = "array"
  /\ Len(v.f.opts.a) = 3
  /\ v.f.a.j = "number"
  /\ v.f.a.n \in 0..2

\* C3: every status-200 body of the quiz route is a valid QuizItem.
C3_QuizBodyIsQuizItem ==
  (IsQuiz /\ pc = "done" /\ Answer.status = 200) => IsQuizItem(Answer.body)

\* The system instruction of the completion request of the ask request at
\* hand, as the fragments it was composed of.
SystemSent == aiCalls[1].messages[1].content

\* Where the live-price clause starts in a text.
ClauseHeads(text) == {i \in DOMAIN text : text[i] = PriceLineHead}

\* The positions in prices of the quotes with a known price.
Known == {i \in DOMAIN prices : prices[i].v.j = "number"}

\* A price (in thousandths) written with 2 decimals, for the prices of
\* MarketOutcomes.
TwoDecimals(n) ==
  CASE n = 65000129 -> "65000.13"
    [] n = 1996 -> "2.00"

Mentioned(text) == {i \in DOMAIN tickers : RegExpTest(tickers[i], text)}

\* The members of a set of numbers with fewer than 3 members below them.
FirstThree(S) == {i \in S : Cardinality({m \in S : m < i}) < 3}

\* The members of a set of numbers, in increasing order.
Ascending(S) ==
  [k \in 1..Cardinality(S) |->
     CHOOSE i \in S : Cardinality({m \in S : m < i}) = k - 1]

\* C5: an ask request with a prompt issues at most 3 price lookups, for the
\* first 3 (or fewer) allow-list symbols its prompt mentions, in allow-list
\* order; once the completion request is out, every one of them was looked up.
C5_LookupsAreFirstThree ==
  HasPrompt =>
    \A first \in {Ascending(FirstThree(Mentioned(req.body.f.prompt.cs)))} :
      /\ Len(mdCalls) <= 3
      /\ Len(mdCalls) <= Len(first)
      /\ \A k \in DOMAIN mdCalls : mdCalls[k] = tickers[first[k]] \o "USDT"
      /\ pc \in {"ask_wait", "done"} =>
           /\ Len(mdCalls) = Len(first)
           /\ Len(prices) = Len(first)
           /\ \A k \in DOMAIN prices : prices[k].k = tickers[first[k]]

\* C5 witness: a prompt that mentions four symbols, DOGE first and BTC last,
\* was answered after the lookups of BTC, ETH and OP.
C5_Witness ==
  /\ HasPrompt
  /\ pc = "done"
  /\ Len(req.body.f.prompt.cs) > 4
  /\ SubSeq(req.body.f.prompt.cs, 1, 4) = <<"d", "o", "g", "e">>
  /\ mdCalls = <<"BTCUSDT", "ETHUSDT", "OPUSDT">>
  /\ Cardinality(Mentioned(req.body.f.prompt.cs)) = 4

\* The market-data call of the ask request at hand failed: the fetch was
\* rejected, the status was not a success, or the body is malformed (not
\* JSON, not an object with a price, or a price that is no number).
LookupFailed ==
  /\ pc = "price_wait"
  /\ net.state = "settled"
  /\ \/ net.reply.kind = "rejected"
     \/ net.reply.kind = "response" /\ ~net.reply.ok
     \/ /\ net.reply.kind = "response"
        /\ net.reply.ok
        /\ net.reply.text \in {"<html>Service unavailable</html>", "null", "{}",
                               "{\"price\":\"abc\"}"}

\* The completion call of the request at hand returned a success status
\* with a JSON body other than null.
CompletionSucceeded ==
  /\ pc = "done"
  /\ net.to = "openai"
  /\ net.reply.kind = "response"
  /\ net.reply.ok
  /\ IsJson(net.reply.text)
  /\ net.reply.text # "null"

\* C6: a price lookup whose market-data call failed raises nothing: it
\* yields null for its symbol and the handler goes on (to the next lookup or
\* to the completion call) without answering; an entry of prices, once set,
\* stays; and when the completion call then succeeds the request is answered
\* 200 with live holding every looked-up symbol, the failed ones as null.
C6_LookupNeverRaises ==
  /\ [][LookupFailed =>
          /\ pc' \in {"price_wait", "ask_wait"}
          /\ sent' = <<>>
          /\ prices' = Append(prices, [k |-> found[cur], v |-> JNull])]_vars
  /\ [][pc' # "idle" =>
          \A i \in DOMAIN prices : i \in DOMAIN prices' /\ prices'[i] = prices[i]]_vars
  /\ []((HasPrompt /\ CompletionSucceeded) =>
          /\ Answer.status = 200
          /\ Answer.body.f.live = prices
          /\ Len(prices) = Len(found))

\* C6 witness: an ask request was answered 200 with live holding a null for
\* its first symbol and a price for its second.
C6_Witness ==
  /\ HasPrompt
  /\ CompletionSucceeded
  /\ Answer.status = 200
  /\ Len(Answer.body.f.live) = 2
  /\ Answer.body.f.live[1].v = JNull
  /\ Answer.body.f.live[2].v.j = "number"

\* C7: when the completion endpoint answers an ask request with a
\* non-success status, the handler answers 502 {error: "OpenAI error",
\* detail: the body text as received}.
C7_UpstreamStatusIs502 ==
  (HasPrompt /\ pc = "done" /\ net.to = "openai"
     /\ net.reply.kind = "response" /\ ~net.reply.ok) =>
    sent = <<Reply(502, JObj([error |-> JStr("OpenAI error"),
                              detail |-> JStr(net.reply.text)]))>>

\* C7 witness: a non-success reply whose body is itself JSON was answered
\* 502.
C7_Witness ==
  /\ HasPrompt
  /\ pc = "done"
  /\ net.reply.kind = "response"
  /\ ~net.reply.ok
  /\ IsJson(net.reply.text)
  /\ Answer.status = 502

\* C8: a request posts at most one body to the completion endpoint, whatever
\* comes back, and a quiz request outside llm mode posts none.
C8_SingleCompletionCall ==
  /\ Len(aiCalls) <= 1
  /\ (IsQuiz /\ quizMode # JStr("llm")) => (aiCalls = <<>> /\ net.to = "none")
  /\ (pc = "done" /\ net.to = "openai") => Len(aiCalls) = 1

\* C8 witness: an ask request whose completion fetch was rejected is
\* finished, with one body posted.
C8_Witness ==
  /\ HasPrompt
  /\ pc = "done"
  /\ net.to = "openai"
  /\ net.reply.kind = "rejected"
  /\ Len(aiCalls) = 1

\* The reply and the tokens the ask route owes to each success body of
\* CompletionOutcomes.
ExpectedReply(text) ==
  CASE text = "{\"choices\":[{\"message\":{\"content\":\"Buy the dip\"}}],\"usage\":{\"total_tokens\":42}}" ->
         JStr("Buy the dip")
    [] text = "{\"choices\":[{\"message\":{\"content\":\"not json\"}}]}" -> JStr("not json")
    [] text = "{\"choices\":[{\"message\":{\"content\":\"{\\\"type\\\":\\\"mcq\\\",\\\"q\\\":\\\"Q\\\",\\\"opts\\\":[\\\"A\\\",\\\"B\\\",\\\"C\\\"],\\\"a\\\":2}\"}}]}" ->
         JStr("{\"type\":\"mcq\",\"q\":\"Q\",\"opts\":[\"A\",\"B\",\"C\"],\"a\":2}")
    [] text = "{\"choices\":[{\"message\":{\"content\":\"{\\\"type\\\":\\\"mcq\\\",\\\"q\\\":\\\"Q\\\",\\\"opts\\\":[\\\"A\\\",\\\"B\\\"],\\\"a\\\":5}\"}}]}" ->
         JStr("{\"type\":\"mcq\",\"q\":\"Q\",\"opts\":[\"A\",\"B\"],\"a\":5}")
    [] OTHER -> JStr("")
ExpectedTokens(text) ==
  IF text = "{\"choices\":[{\"message\":{\"content\":\"Buy the dip\"}}],\"usage\":{\"total_tokens\":42}}"
    THEN JNum(42)
    ELSE JNull

\* What C9 says of the answer to an ask request: status 200, reply the first
\* completion's message text (or the empty string), tokens the reported
\* total (or null), cost null, live the looked-up symbols with their lookup
\* results (a number or null).
AskAnswered200 ==
  /\ sent = <<Reply(200, JObj([reply |-> ExpectedReply(net.reply.text),
                               tokens |-> ExpectedTokens(net.reply.text),
                               cost |-> JNull,
                               live |-> prices]))>>
  /\ Len(prices) = Len(found)
  /\ \A i \in DOMAIN prices :
       /\ prices[i].k = found[i]
       /\ mdCalls[i] = found[i] \o "USDT"
       /\ prices[i].v.j \in {"number", "null"}

\* C9 as stated: every ask request with a prompt whose completion call
\* returns a success status is answered so.
C9_SuccessStatusIs200 ==
  (HasPrompt /\ pc = "done" /\ net.to = "openai"
     /\ net.reply.kind = "response" /\ net.reply.ok) => AskAnswered200

\* C9 as amended: every ask request with a prompt whose completion call
\* returns a success status and a JSON body other than null is answered so.
C9_SuccessBodyIs200 == (HasPrompt /\ CompletionSucceeded) => AskAnswered200

\* C9 witness: a completion was answered 200 with its text, its 42 tokens
\* and two live quotes.
C9_Witness ==
  /\ HasPrompt
  /\ CompletionSucceeded
  /\ Answer.body.f.reply = JStr("Buy the dip")
  /\ Answer.body.f.tokens = JNum(42)
  /\ Len(Answer.body.f.live) = 2

\* The answer is the 500 of the route's catch, with a text as its detail.
Is500 ==
  /\ Answer.status = 500
  /\ DOMAIN Answer.body.f = {"error", "detail"}
  /\ Answer.body.f.error = JStr("Server error")
  /\ Answer.body.f.detail.j = "string"
  /\ Answer.body.f.detail.s # ""

====
